---- MODULE Spec2Model ----
(***************************************************************************)
(* TissueMAPS metadata configuration step (tmlib/metaconfig/api.py):       *)
(* MetadataConfigurator.create_job_descriptions, run_job and               *)
(* collect_job_output, modelled as a state machine over an experiment's    *)
(* uploads, the files the jobs write and the experiment's cycles.          *)
(***************************************************************************)
EXTENDS Integers, Sequences, FiniteSets, TLC

\* ------------------------------------------------------------------ bounds
\* At most this many uploads in the experiment.
MaxUploads == 2
\* At most this many images in the experiment (summed over its uploads).
MaxImages == 2

\* Value domains of the image metadata the handlers deliver: two wells, the
\* first with two sites and the second with one, as (well, PositionY,
\* PositionX), one channel and one focal plane.
Wells == {0, 1}
Sites == {<<0, 0, 0>>, <<0, 0, 1>>, <<1, 0, 0>>}
Channels == {0}
Planes == {0}
\* Acquisition time points (Plane.TheT). 1 and 8 occupy the hash slots 1 and
\* 0 of a CPython set of small integers, see SetIterOrder.
TPoints == {1, 8}

\* The formats a job can be requested for: the default handler, one of the
\* custom handlers named in run_job's docstring, and an unknown one.
RequestedFormats == {"default", "cellvoyager", "nd2"}

Null == "null"

\* ----------------------------------------------------------------- helpers
RECURSIVE SumSeq(_)
SumSeq(s) == IF s = <<>> THEN 0 ELSE Head(s) + SumSeq(Tail(s))

RECURSIVE Flatten(_)
\* utils.flatten: the concatenation of a list of lists.
Flatten(ss) == IF ss = <<>> THEN <<>> ELSE Head(ss) \o Flatten(Tail(ss))

Range(s) == {s[i] : i \in DOMAIN s}

\* The elements of a finite set of integers in ascending order.
RECURSIVE SortedSeq(_)
SortedSeq(S) ==
    IF S = {} THEN <<>>
    ELSE LET m == CHOOSE a \in S : \A b \in S : a <= b
         IN  <<m>> \o SortedSeq(S \ {m})

\* All orderings of a finite set, as sequences without repetition.
Orderings(S) ==
    {q \in [1..Cardinality(S) -> S] : \A i, j \in DOMAIN q : i # j => q[i] # q[j]}

\* os.path.join(dir, name): a path is the sequence of its components.
Join(dir, name) == Append(dir, name)

\* --------------------------------------------------------------- the inputs
\* One image as the metadata handler describes it: its well, the position of
\* its well sample, its channel, its focal plane and its time point.
Images ==
    {[w |-> s[1], y |-> s[2], x |-> s[3], c |-> c, z |-> z, t |-> t] :
        s \in Sites, c \in Channels, z \in Planes, t \in TPoints}

\* The numbers of images per upload: every upload holds at least one image,
\* the experiment at most MaxImages.
UploadShapes ==
    {ns \in UNION {[1..u -> 1..MaxImages] : u \in 0..MaxUploads} :
        SumSeq(ns) <= MaxImages}

\* Upload i of an experiment whose images, all uploads one after the other,
\* are flat, cut according to ns.
UploadOf(i, ns, flat) ==
    LET off == SumSeq(SubSeq(ns, 1, i - 1))
    IN  [dir       |-> <<"uploads", i>>,
         images    |-> [k \in 1..ns[i] |-> flat[off + k]]]

VARIABLES
    uploads,            \* experiment.uploads: the uploads in ingestion order
    stage,              \* the state of the metaconfig stage
    job_descriptions,   \* what create_job_descriptions returned, or Null
    jobpc,              \* the state of each run job
    reads,              \* the paths each run job has read
    files,              \* the files written so far: path -> content
    cycles,             \* experiment.cycles
    cpc,                \* where collect_job_output stands
    exc,                \* the exception collect_job_output raised, or Null
    up,                 \* the upload collect_job_output is processing
    cycle_count,        \* collect_job_output's cycle_count
    global_file_mapper, \* collect_job_output's global_file_mapper
    lut,                \* the lookup table of the upload in process
    ids,                \* the flattened reference ids of the upload in process
    tqueue,             \* the time points of the upload still to be processed
    assigned,           \* the (upload, time point, cycle index) triples so far
    handlers,           \* what the metadata handler of each run job finds
    calls,              \* the handler methods each run job has called, in order
    jexc,               \* the exception that ended each run job, or Null
    requested,          \* the arguments create_job_descriptions was called
                        \* with, or Null
    tiles,              \* the rows of the table pyramid_tile_files
    storage,            \* the tile files on disk: location -> pixels
    lastput,            \* per tile key, the latest put: its pixels, the
                        \* tile's group, were other keys put to since
    putgroups,          \* per tile key, the groups its puts were made under
    got,                \* what the latest get of a tile returned; turn
                        \* alternates from get to get
    again,              \* the collect jobs started so far, the order each
                        \* upload's dictionary yields its keys in, and the
                        \* cycles and the persisted file mapper the
                        \* previous collect job left
    margs,              \* the arguments of the stitching call
    mcalled,            \* the stitching function that was called, or Null
    msteps,             \* what the stitching call did, in order
    mresult,            \* the exception it raised or Null with its
                        \* message, and the height and width of the
                        \* array it returned
    mgrid,              \* the image grid the call built, <<>> before
    mlayout,            \* what the returned array is made of: bands from
                        \* top to bottom, each the blocks from left to right
    cfile,              \* the datasets of a channel image file: z -> plane
    n_planes,           \* the n_planes of the channel image file
    cput                \* the latest put to the channel image file: its
                        \* arguments, the exception it raised or Null and
                        \* the datasets of the file before it

\* The variables that follow the handler calls of the run jobs.
handlerVars == <<handlers, calls, jexc>>

\* The variables of the metadata configuration.
metaconfigVars ==
    <<uploads, stage, job_descriptions, jobpc, reads, files, cycles, cpc,
      exc, up, cycle_count, global_file_mapper, lut, ids, tqueue, assigned,
      handlerVars, requested, again>>

\* The variables of the pyramid tile files.
tileVars == <<tiles, storage, lastput, putgroups, got>>

\* The variables of the mosaics and collages.
mosaicVars == <<margs, mcalled, msteps, mresult, mgrid, mlayout>>

\* The variables of the components other than the metadata configuration.
\* The variables of the channel image file.
channelVars == <<cfile, n_planes, cput>>

otherVars == <<tileVars, mosaicVars, channelVars>>

vars == <<metaconfigVars, otherVars>>

collectVars == <<cycles, cpc, exc, up, cycle_count, global_file_mapper, lut,
                 ids, tqueue, assigned>>

NUploads == Len(uploads)

\* ------------------------------------------------------------- file layout
\* upload.image_dir, upload.ome_xml_dir: subdirectories of the upload.
image_dir(upload) == Join(upload.dir, "image_uploads")
ome_xml_dir(upload) == Join(upload.dir, "ome_xml")
\* upload.image_files, upload.ome_xml_files: one file per image.
image_files(upload) == [k \in 1..Len(upload.images) |-> k]
ome_xml_files(upload) == [k \in 1..Len(upload.images) |-> k]

\* A faulty variant of MetadataPath: the file is put into the directory of all uploads
\* instead of the upload's own.
MetadataPathShared(upload) == <<"uploads", 0, "image_metadata_file">>

MetadataPath(upload) == Join(upload.dir, "image_metadata_file")
MapperPath(upload) == Join(upload.dir, "image_mapper_file")

\* The content of an input file of an upload: the OMEXML extracted from image
\* k describes image k; the image files hold the pixels.
InputContent(path) ==
    IF path[3] = "ome_xml" THEN uploads[path[2]].images[path[4]] ELSE "pixels"

\* ------------------------------------------------ create_job_descriptions
\* Formats.SUPPORT_FOR_ADDITIONAL_FILES: the formats with a custom handler.
SUPPORT_FOR_ADDITIONAL_FILES == {"cellvoyager", "visiview"}

RunDescription(i, upload, kwargs) ==
    [id      |-> i,
     inputs  |-> [uploaded_image_files |->
                      [k \in DOMAIN image_files(upload) |->
                          Join(image_dir(upload), image_files(upload)[k])],
                  uploaded_additional_files |-> <<>>,
                  ome_xml_files |->
                      [k \in DOMAIN ome_xml_files(upload) |->
                          Join(ome_xml_dir(upload), ome_xml_files(upload)[k])]],
     outputs |-> [metadata_files |-> <<MetadataPath(upload)>>,
                  mapper_files   |-> <<MapperPath(upload)>>],
     z_stacks |-> kwargs.z_stacks,
     format   |-> kwargs.format]

\* A faulty variant of CollectDescription: the inputs miss the first upload.
CollectDescriptionSkipFirst(ups) ==
    [inputs  |-> [metadata_files |->
                      [i \in 1..(Len(ups) - 1) |-> MetadataPath(ups[i + 1])],
                  mapper_files   |->
                      [i \in 1..(Len(ups) - 1) |-> MapperPath(ups[i + 1])]],
     outputs |-> [cycle_dirs |-> << <<"cycles">> >>]]

CollectDescription(ups) ==
    [inputs  |-> [metadata_files |-> [i \in DOMAIN ups |-> MetadataPath(ups[i])],
                  mapper_files   |-> [i \in DOMAIN ups |-> MapperPath(ups[i])]],
     outputs |-> [cycle_dirs |-> << <<"cycles">> >>]]

JobDescriptions(ups, kwargs) ==
    [run     |-> [i \in DOMAIN ups |-> RunDescription(i, ups[i], kwargs)],
     collect |-> CollectDescription(ups)]

\* A faulty variant of FormatSupported: the format is not checked.
FormatSupportedAny(format) == TRUE

\* Lines 94-95: the format is 'default' or one with a custom handler.
FormatSupported(format) ==
    format = "default" \/ format \in SUPPORT_FOR_ADDITIONAL_FILES

\* create_job_descriptions(**kwargs), called once on the new experiment.
CreateJobDescriptions ==
    /\ stage = "init"
    /\ \E format \in RequestedFormats :
        LET kwargs == [format |-> format, z_stacks |-> FALSE]
        IN  /\ requested' = kwargs
            /\ IF FormatSupported(format)
               THEN /\ job_descriptions' = JobDescriptions(uploads, kwargs)
                    /\ stage' = "run"
               ELSE /\ job_descriptions' = Null
                    /\ stage' = "not_supported"
    /\ UNCHANGED <<uploads, jobpc, reads, files>>
    /\ UNCHANGED collectVars
    /\ UNCHANGED <<handlerVars, again, otherVars>>

\* ----------------------------------------------------------------- run_job
\* The ID of an OMEXML Image element, 'Image:%d' % n, and the index read back
\* from it, int(re.search(r'Image:(\d+)$', ref_id).group(1)).
ImageID(n) == <<"Image", n>>
RefIndex(ref_id) == ref_id[2]

\* The metadata the handler configures from the files it was given: one image
\* per OMEXML file, in file order, with zero-based IDs.  AcquiredDate stands
\* for what identifies the acquisition: the upload and the file.
ConfiguredMetadata(batch) ==
    [k \in DOMAIN batch.inputs.ome_xml_files |->
        LET path == batch.inputs.ome_xml_files[k]
            raw  == InputContent(path)
        IN  [ID |-> ImageID(k - 1), AcquiredDate |-> <<path[2], path[4]>>,
             w |-> raw.w, y |-> raw.y, x |-> raw.x, c |-> raw.c, z |-> raw.z,
             t |-> raw.t]]

\* handler.create_image_file_mapper(): one entry per image, which refers to
\* the image by its index and to the files that hold its planes.
ImageFileMapper(batch) ==
    [k \in DOMAIN batch.inputs.uploaded_image_files |->
        [series    |-> 0,
         planes    |-> <<0>>,
         files     |-> <<batch.inputs.uploaded_image_files[k][4]>>,
         ref_index |-> k - 1,
         ref_id    |-> ImageID(k - 1),
         ref_file  |-> Null]]

\* The paths run_job hands to its handler.
RunJobInputs(batch) ==
    Range(batch.inputs.uploaded_image_files)
        \cup Range(batch.inputs.uploaded_additional_files)
        \cup Range(batch.inputs.ome_xml_files)

\* run_job up to and including _write_metadata_to_file: the handler configures
\* the metadata or raises, then the metadata file is written.
RunJobConfigure(j) ==
    /\ stage \in {"run", "failed"}
    /\ jobpc[j] = "pending"
    /\ LET batch == job_descriptions.run[j]
       IN  /\ reads' = [reads EXCEPT ![j] = RunJobInputs(batch)]
           /\ \E raised \in BOOLEAN :
               IF raised
               THEN /\ jobpc' = [jobpc EXCEPT ![j] = "failed"]
                    /\ stage' = "failed"
                    /\ files' = files
               ELSE /\ jobpc' = [jobpc EXCEPT ![j] = "metadata_written"]
                    /\ stage' = stage
                    /\ files' = (batch.outputs.metadata_files[1]
                                    :> ConfiguredMetadata(batch)) @@ files
    /\ UNCHANGED <<uploads, job_descriptions>>
    /\ UNCHANGED collectVars
    /\ UNCHANGED <<handlerVars, requested, again, otherVars>>

\* The rest of run_job: _write_mapper_to_file, which writes the file mapper or
\* raises.
RunJobWriteMapper(j) ==
    /\ stage \in {"run", "failed"}
    /\ jobpc[j] = "metadata_written"
    /\ LET batch == job_descriptions.run[j]
       IN  \E raised \in BOOLEAN :
               IF raised
               THEN /\ jobpc' = [jobpc EXCEPT ![j] = "failed"]
                    /\ stage' = "failed"
                    /\ files' = files
               ELSE /\ jobpc' = [jobpc EXCEPT ![j] = "done"]
                    /\ stage' = stage
                    /\ files' = (batch.outputs.mapper_files[1]
                                    :> ImageFileMapper(batch)) @@ files
    /\ UNCHANGED <<uploads, job_descriptions, reads>>
    /\ UNCHANGED collectVars
    /\ UNCHANGED <<handlerVars, requested, again, otherVars>>

\* ------------------------------------------- run_job, handler call by call
\* The required fields determine_missing_metadata may report as missing.
RequiredFields == {"channel", "tpoint"}

\* What the handler of a run job finds: the fields missing once the image
\* files and the additional files were read, those still missing after the
\* file names were matched, batch['regex'] and handler.REGEX (is there a
\* pattern), and how the two strategies for the grid coordinates end.
HandlerFindings ==
    {h \in [missing_md    : SUBSET RequiredFields,
            missing_after : SUBSET RequiredFields,
            regex         : BOOLEAN,
            REGEX         : BOOLEAN,
            stage_positions : {"ok", "MetadataError", "Exception"},
            layout          : {"ok", "MetadataError"}] :
        h.missing_after \subseteq h.missing_md}

\* A faulty variant of ConfigureCalls: the metadata is not checked again
\* after the file names were matched.
ConfigureCallsNoRecheck(h, batch) ==
    LET first == <<"configure_ome_metadata_from_image_files",
                   "configure_ome_metadata_from_additional_files",
                   "determine_missing_metadata">>
    IN  IF h.missing_md # {} /\ ~(h.regex \/ h.REGEX)
        THEN [calls |-> first, exc |-> "MetadataError"]
        ELSE IF h.missing_md # {}
        THEN [calls |-> first \o <<"configure_metadata_from_filenames">>,
              exc |-> Null]
        ELSE [calls |-> first \o <<"determine_missing_metadata">>,
              exc |-> Null]

\* Lines 201-220: the handler calls made until the required metadata is
\* complete, and the exception raised if it is not.
ConfigureCalls(h, batch) ==
    LET first == <<"configure_ome_metadata_from_image_files",
                   "configure_ome_metadata_from_additional_files",
                   "determine_missing_metadata">>
        fallback == h.missing_md # {} /\ (h.regex \/ h.REGEX)
        second == IF fallback
                  THEN first \o <<"configure_metadata_from_filenames",
                                  "determine_missing_metadata">>
                  ELSE first \o <<"determine_missing_metadata">>
        missing == IF fallback THEN h.missing_after ELSE h.missing_md
    IN  IF h.missing_md # {} /\ ~(h.regex \/ h.REGEX)
        THEN [calls |-> first, exc |-> "MetadataError"]
        ELSE IF missing # {}
        THEN [calls |-> second, exc |-> "MetadataError"]
        ELSE [calls |-> second, exc |-> Null]

\* A faulty variant of GridCalls: the layout is used whether or not the
\* stage positions were available.
GridCallsBoth(h, batch) ==
    [calls |-> <<"determine_grid_coordinates_from_stage_positions",
                 "determine_grid_coordinates_from_layout">>,
     exc   |-> IF h.stage_positions = "Exception" THEN "Exception"
               ELSE IF h.layout = "ok" THEN Null ELSE h.layout]

\* Lines 224-237: the grid coordinates, from the stage positions or, when
\* that raises MetadataError, from the stitch layout.
GridCalls(h, batch) ==
    IF h.stage_positions = "ok"
    THEN [calls |-> <<"determine_grid_coordinates_from_stage_positions">>,
          exc   |-> Null]
    ELSE IF h.stage_positions = "MetadataError"
    THEN [calls |-> <<"determine_grid_coordinates_from_stage_positions",
                      "determine_grid_coordinates_from_layout">>,
          exc   |-> IF h.layout = "ok" THEN Null ELSE h.layout]
    ELSE [calls |-> <<"determine_grid_coordinates_from_stage_positions">>,
          exc   |-> h.stage_positions]

\* Lines 239-249: the projection if asked for, the ids, the file names and
\* the file mapper.
FinishCalls(batch) ==
    (IF batch.z_stacks THEN <<"reconfigure_ome_metadata_for_projection">>
     ELSE <<>>)
        \o <<"update_channel_ids", "update_plane_ids",
             "build_image_filenames", "create_image_file_mapper">>

\* Lines 201-249: the calls run_job makes on a handler that finds h, and the
\* exception that ends them, if any.
HandlerCalls(h, batch) ==
    LET c == ConfigureCalls(h, batch)
        g == GridCalls(h, batch)
    IN  IF c.exc # Null THEN c
        ELSE IF g.exc # Null
        THEN [calls |-> c.calls \o g.calls, exc |-> g.exc]
        ELSE [calls |-> c.calls \o g.calls \o FinishCalls(batch),
              exc |-> Null]

\* run_job up to and including _write_metadata_to_file, as RunJobConfigure,
\* with the handler's calls and what they raise made explicit.
RunJobHandler(j) ==
    /\ stage \in {"run", "failed"}
    /\ jobpc[j] = "pending"
    /\ LET batch == job_descriptions.run[j]
           r     == HandlerCalls(handlers[j], batch)
       IN  /\ reads' = [reads EXCEPT ![j] = RunJobInputs(batch)]
           /\ calls' = [calls EXCEPT ![j] = r.calls]
           /\ IF r.exc # Null
              THEN /\ jobpc' = [jobpc EXCEPT ![j] = "failed"]
                   /\ jexc' = [jexc EXCEPT ![j] = r.exc]
                   /\ stage' = "failed"
                   /\ files' = files
              ELSE \E raised \in BOOLEAN :
                   IF raised
                   THEN /\ jobpc' = [jobpc EXCEPT ![j] = "failed"]
                        /\ jexc' = [jexc EXCEPT ![j] = "IOError"]
                        /\ stage' = "failed"
                        /\ files' = files
                   ELSE /\ jobpc' = [jobpc EXCEPT ![j] = "metadata_written"]
                        /\ jexc' = jexc
                        /\ stage' = stage
                        /\ files' = (batch.outputs.metadata_files[1]
                                        :> ConfiguredMetadata(batch)) @@ files
    /\ UNCHANGED <<uploads, job_descriptions, handlers, requested, again,
                   otherVars>>
    /\ UNCHANGED collectVars

\* ------------------------------------------------------ collect_job_output
\* No collect job was started.
NoCollect ==
    [runs |-> 0, keys |-> <<>>, ended |-> "idle", cycles |-> <<>>,
     persisted |-> <<>>]

\* plate.Well, enumerated: the wells of the plate in ascending order.
WellSeq == SortedSeq(Wells)

\* The well samples of the plate in the order of the loops of lines 293-294:
\* well by well, within a well in image order; each with its lookup key
\* (w, PositionY, PositionX, channel, time point) and its ImageRef.
SamplesOfWell(metadata, w) ==
    LET ix == SortedSeq({i \in DOMAIN metadata : metadata[i].w = w})
    IN  [n \in DOMAIN ix |->
            [k   |-> [w |-> w, y |-> metadata[ix[n]].y, x |-> metadata[ix[n]].x,
                      c |-> metadata[RefIndex(metadata[ix[n]].ID) + 1].c,
                      t |-> metadata[RefIndex(metadata[ix[n]].ID) + 1].t],
             ref |-> metadata[ix[n]].ID]]

PlateSamples(metadata) ==
    Flatten([i \in DOMAIN WellSeq |-> SamplesOfWell(metadata, WellSeq[i])])

\* tpoint_samples[k]: the ImageRefs appended under key k, in sample order.
TPointSamples(metadata, k) ==
    LET ss == PlateSamples(metadata)
        ix == SortedSeq({i \in DOMAIN ss : ss[i].k = k})
    IN  [n \in DOMAIN ix |-> ss[ix[n]].ref]

SampleKeys(metadata) == {s.k : s \in Range(PlateSamples(metadata))}

\* ids = utils.flatten(tpoint_samples.values()), for the dictionary's keys in
\* the order keys.
FlatIds(metadata, keys) ==
    Flatten([i \in DOMAIN keys |-> TPointSamples(metadata, keys[i])])

\* Iterating a CPython set of small integers: hash(t) = t and a set of up to
\* four elements has 8 slots, which are visited in ascending order.
RECURSIVE SetIterOrder(_)
SetIterOrder(S) ==
    IF S = {} THEN <<>>
    ELSE LET m == CHOOSE a \in S : \A b \in S : (a % 8) <= (b % 8)
         IN  <<m>> \o SetIterOrder(S \ {m})

\* unique_tpoints = set(lut['t'].tolist()), as the for loop visits it.
UniqueTPoints(table) == SetIterOrder({table[i].t : i \in DOMAIN table})

\* experiment.append_cycle(): a new cycle after the existing ones.
NewCycle(index) == [index |-> index, dir |-> <<"cycles", index>>]

\* A faulty variant of CycleAt: the cycle is looked up at index 0 instead of cycle_count.
CycleAtFirst(cs, count) == IF 0 < Len(cs) THEN cs[1] ELSE NewCycle(Len(cs))

\* The cycle of this iteration: experiment.cycles[cycle_count], or a new one
\* when that raises IndexError.
CycleAt(cs, count) == IF count < Len(cs) THEN cs[count + 1] ELSE NewCycle(Len(cs))

\* A faulty variant of CyclesWith: a cycle is appended whether or not the
\* experiment has one at cycle_count.
CyclesWithAppended(cs, count) == Append(cs, NewCycle(Len(cs)))

\* experiment.cycles after lines 319-323.
CyclesWith(cs, count) == IF count < Len(cs) THEN cs ELSE Append(cs, NewCycle(Len(cs)))

CycleMetadataPath(cycle) == Join(cycle.dir, "image_metadata_file")

\* The rows of the lookup table (one-based here) that the loops of lines
\* 345-350 visit for time point t: well by well, ascending within a well.
CycleRows(table, t) ==
    Flatten([i \in DOMAIN WellSeq |->
        SortedSeq({r \in DOMAIN table :
                       table[r].w = WellSeq[i] /\ table[r].t = t})])

\* cycle_indices = lut[lut['t'] == t].index.tolist()
CycleIndices(table, t) == SortedSeq({r \in DOMAIN table : table[r].t = t})

\* experiment.cfg.IMAGE_FILE.format(**fn)
ImageName(fn) ==
    <<fn.experiment_name, fn.well_id, fn.well_y, fn.well_x, fn.channel,
      fn.plane, fn.time>>

\* A faulty variant of CycleImage: the image keeps the ID it had in the
\* upload's metadata instead of getting the new index im_count.
CycleImageKeepsId(metadata, table, refs, count, im_count, ix) ==
    LET ref_im == metadata[RefIndex(refs[ix]) + 1]
    IN  [ID           |-> refs[ix],
         AcquiredDate |-> ref_im.AcquiredDate,
         w            |-> table[ix].w,
         y            |-> table[ix].y,
         x            |-> table[ix].x,
         c            |-> ref_im.c,
         z            |-> ref_im.z,
         t            |-> count,
         Name         |-> ImageName([experiment_name |-> "experiment",
                                     well_id |-> table[ix].w,
                                     well_y  |-> table[ix].y,
                                     well_x  |-> table[ix].x,
                                     channel |-> ref_im.c,
                                     plane   |-> ref_im.z,
                                     time    |-> count])]

\* The image with the new index im_count that lines 351-391 create for row ix
\* of the lookup table: the contents of the reference image ids[ix], the
\* position of the row, the cycle as time point.
CycleImage(metadata, table, refs, count, im_count, ix) ==
    LET ref_im == metadata[RefIndex(refs[ix]) + 1]
    IN  [ID           |-> ImageID(im_count),
         AcquiredDate |-> ref_im.AcquiredDate,
         w            |-> table[ix].w,
         y            |-> table[ix].y,
         x            |-> table[ix].x,
         c            |-> ref_im.c,
         z            |-> ref_im.z,
         t            |-> count,
         Name         |-> ImageName([experiment_name |-> "experiment",
                                     well_id |-> table[ix].w,
                                     well_y  |-> table[ix].y,
                                     well_x  |-> table[ix].x,
                                     channel |-> ref_im.c,
                                     plane   |-> ref_im.z,
                                     time    |-> count])]

\* A faulty variant of CycleMetadata: image_count is one too large, which leaves an
\* image the loops never fill.
CycleMetadataOneMore(metadata, table, refs, count, t) ==
    LET rows == CycleRows(table, t)
    IN  [n \in 1..(Len(CycleIndices(table, t)) + 1) |->
            IF n <= Len(rows)
            THEN CycleImage(metadata, table, refs, count, n - 1, rows[n])
            ELSE [ID |-> ImageID(n - 1)]]

\* cycle_metadata: image_count = len(cycle_indices) images; the loops fill
\* one image per visited row.
CycleMetadata(metadata, table, refs, count, t) ==
    LET rows == CycleRows(table, t)
    IN  [n \in 1..Len(CycleIndices(table, t)) |->
            CycleImage(metadata, table, refs, count, n - 1, rows[n])]

\* A faulty variant of FmLut: im_count is not incremented, every image maps to index 0.
FmLutStuck(table, refs, t) ==
    LET rows == CycleRows(table, t)
    IN  [r \in {RefIndex(refs[rows[n]]) : n \in DOMAIN rows} |-> 0]

\* fm_lut after the loops: original image index -> cycle-specific index; a
\* later assignment to the same key replaces an earlier one.
FmLut(table, refs, t) ==
    LET rows == CycleRows(table, t)
        keys == {RefIndex(refs[rows[n]]) : n \in DOMAIN rows}
    IN  [r \in keys |->
            (CHOOSE n \in DOMAIN rows :
                /\ RefIndex(refs[rows[n]]) = r
                /\ \A m \in DOMAIN rows :
                       RefIndex(refs[rows[m]]) = r => m <= n) - 1]

\* The element lines 409-422 make of a file mapper element.
NewElement(element, upload, cycle, cycle_metadata, fm_lut) ==
    LET ix == fm_lut[element.ref_index]
    IN  [series    |-> element.series,
         planes    |-> element.planes,
         files     |-> [f \in DOMAIN element.files |->
                            Join(image_dir(upload), element.files[f])],
         ref_index |-> ix,
         ref_id    |-> cycle_metadata[ix + 1].ID,
         ref_file  |-> Join(Join(cycle.dir, "image_dir"),
                            cycle_metadata[ix + 1].Name)]

\* The number of elements of the file mapper the loop of line 408 appends
\* before fm_lut[element.ref_index] raises KeyError (all, if it never does).
RECURSIVE Appended(_, _, _)
Appended(file_mapper, i, fm_lut) ==
    IF i > Len(file_mapper) \/ file_mapper[i].ref_index \notin DOMAIN fm_lut
    THEN i - 1
    ELSE Appended(file_mapper, i + 1, fm_lut)

GlobalMapperPath == <<"uploads", 0, "image_mapper_file">>

\* The collect job is started: lines 284-285.  The stage starts it once every
\* run job has completed.
\* A faulty variant of RunJobsDone: the collect job waits for the run jobs to end, not
\* for their success.
RunJobsEnded == \A j \in DOMAIN jobpc : jobpc[j] \in {"done", "failed"}

RunJobsDone == \A j \in DOMAIN jobpc : jobpc[j] = "done"

CollectBegin ==
    /\ stage \in {"run", "failed"}
    /\ RunJobsDone
    /\ cpc = "idle"
    /\ stage' = "collect"
    /\ cycle_count' = 0
    /\ global_file_mapper' = <<>>
    /\ up' = 1
    /\ cpc' = IF NUploads = 0 THEN "done" ELSE "load"
    /\ again' = [again EXCEPT !.runs = 1]
    /\ UNCHANGED <<uploads, job_descriptions, jobpc, reads, files, cycles, exc,
                   lut, ids, tqueue, assigned>>
    /\ UNCHANGED <<handlerVars, requested, otherVars>>

\* The largest number of collect jobs run on the same uploads.
MaxCollectRuns == 2

\* The collect job is run again once it has ended, on the same uploads and
\* the same experiment: lines 284-285.
CollectAgain ==
    /\ cpc \in {"done", "error"}
    /\ again.runs < MaxCollectRuns
    /\ stage' = "collect"
    /\ exc' = Null
    /\ cycle_count' = 0
    /\ global_file_mapper' = <<>>
    /\ up' = 1
    /\ cpc' = IF NUploads = 0 THEN "done" ELSE "load"
    /\ again' = [again EXCEPT
                    !.runs = @ + 1,
                    !.ended = cpc,
                    !.cycles = cycles,
                    !.persisted = IF GlobalMapperPath \in DOMAIN files
                                  THEN <<files[GlobalMapperPath]>> ELSE <<>>]
    /\ UNCHANGED <<uploads, job_descriptions, jobpc, reads, files, cycles,
                   lut, ids, tqueue, assigned>>
    /\ UNCHANGED <<handlerVars, requested, otherVars>>

\* tpoint_samples.keys(): the order a dictionary yields its keys in is any
\* order, but the same one whenever the same dictionary is built again.
KeyOrders(keys, seen, u) ==
    IF u \in DOMAIN seen THEN {seen[u]} ELSE Orderings(keys)

\* Lines 288-311 for the upload in process: the lookup table, in the order
\* the dictionary yields its keys, and the time points.
CollectLoad ==
    /\ cpc = "load"
    /\ LET metadata == files[MetadataPath(uploads[up])]
       IN  \E keys \in KeyOrders(SampleKeys(metadata), again.keys, up) :
               /\ lut' = keys
               /\ ids' = FlatIds(metadata, keys)
               /\ tqueue' = UniqueTPoints(keys)
               /\ again' = [again EXCEPT !.keys = (up :> keys) @@ @]
    /\ cpc' = "cycle"
    /\ UNCHANGED <<uploads, stage, job_descriptions, jobpc, reads, files,
                   cycles, exc, up, cycle_count, global_file_mapper, assigned>>
    /\ UNCHANGED <<handlerVars, requested, otherVars>>

\* One iteration of the loop of line 314, lines 316-425: the cycle of the next
\* time point, its metadata file, the rewritten file mapper elements.
CollectCycle ==
    /\ cpc = "cycle"
    /\ tqueue # <<>>
    /\ LET t              == Head(tqueue)
           upload         == uploads[up]
           metadata       == files[MetadataPath(upload)]
           cycle          == CycleAt(cycles, cycle_count)
           cycle_metadata == CycleMetadata(metadata, lut, ids, cycle_count, t)
           fm_lut         == FmLut(lut, ids, t)
           file_mapper    == files[MapperPath(upload)]
           n              == Appended(file_mapper, 1, fm_lut)
       IN  /\ cycles' = CyclesWith(cycles, cycle_count)
           /\ assigned' = Append(assigned,
                  [upload |-> up, t |-> t, cycle |-> cycle.index])
           /\ files' = (CycleMetadataPath(cycle) :> cycle_metadata) @@ files
           /\ global_file_mapper' = global_file_mapper \o
                  [i \in 1..n |->
                      NewElement(file_mapper[i], upload, cycle, cycle_metadata,
                                 fm_lut)]
           /\ IF n < Len(file_mapper)
              THEN /\ cpc' = "error"
                   /\ exc' = "KeyError"
                   /\ stage' = "failed"
                   /\ UNCHANGED <<cycle_count, tqueue>>
              ELSE /\ cycle_count' = cycle_count + 1
                   /\ tqueue' = Tail(tqueue)
                   /\ cpc' = IF Tail(tqueue) = <<>> THEN "write" ELSE "cycle"
                   /\ UNCHANGED <<exc, stage>>
    /\ UNCHANGED <<uploads, job_descriptions, jobpc, reads, up, lut, ids>>
    /\ UNCHANGED <<handlerVars, requested, again, otherVars>>

\* A faulty variant of CollectWrite: the list is emptied once it is written, as
\* if it were created inside the loop over the uploads.
CollectWriteReset ==
    /\ cpc = "write"
    /\ files' = (GlobalMapperPath :> global_file_mapper) @@ files
    /\ global_file_mapper' = <<>>
    /\ IF up < NUploads
       THEN /\ up' = up + 1
            /\ cpc' = "load"
            /\ stage' = stage
       ELSE /\ up' = up
            /\ cpc' = "done"
            /\ stage' = "done"
    /\ UNCHANGED <<uploads, job_descriptions, jobpc, reads, cycles, exc,
                   cycle_count, lut, ids, tqueue, assigned>>
    /\ UNCHANGED <<handlerVars, requested, again, otherVars>>

\* Lines 427-431: the accumulated file mapper is written, and the loop of line
\* 286 goes on to the next upload or ends.
CollectWrite ==
    /\ cpc = "write"
    /\ files' = (GlobalMapperPath :> global_file_mapper) @@ files
    /\ IF up < NUploads
       THEN /\ up' = up + 1
            /\ cpc' = "load"
            /\ stage' = stage
       ELSE /\ up' = up
            /\ cpc' = "done"
            /\ stage' = "done"
    /\ UNCHANGED <<uploads, job_descriptions, jobpc, reads, cycles, exc,
                   cycle_count, global_file_mapper, lut, ids, tqueue, assigned>>
    /\ UNCHANGED <<handlerVars, requested, again, otherVars>>

\* --------------------------------------------------------------- the rest
\* The other components before anything was done with them.
TilesIdle ==
    /\ tiles = {}
    /\ storage = <<>>
    /\ lastput = <<>>
    /\ putgroups = <<>>
    /\ got = [key |-> <<>>, status |-> "none", pixels |-> <<>>,
              others |-> FALSE, turn |-> 0]

MosaicIdle ==
    /\ margs = <<>>
    /\ mcalled = Null
    /\ msteps = <<>>
    /\ mresult = [exc |-> Null, message |-> "", height |-> 0, width |-> 0]
    /\ mgrid = <<>>
    /\ mlayout = <<>>

\* ChannelImageFile.__init__, lines 279-303: a new file, nothing put.
ChannelIdle ==
    /\ cfile = <<>>
    /\ n_planes = 0
    /\ cput = [called |-> FALSE, image |-> <<>>,
               z |-> [given |-> FALSE, index |-> 0], exc |-> Null,
               before |-> <<>>]

OthersIdle == TilesIdle /\ MosaicIdle /\ ChannelIdle

\* ------------------------------------------------------- the specification
Init ==
    /\ \E ns \in UploadShapes :
       \E flat \in [1..SumSeq(ns) -> Images] :
           uploads = [i \in DOMAIN ns |-> UploadOf(i, ns, flat)]
    /\ stage = "init"
    /\ job_descriptions = Null
    /\ jobpc = [j \in 1..NUploads |-> "pending"]
    /\ reads = [j \in 1..NUploads |-> {}]
    /\ files = <<>>
    /\ cycles = <<>>
    /\ cpc = "idle"
    /\ exc = Null
    /\ up = 0
    /\ cycle_count = 0
    /\ global_file_mapper = <<>>
    /\ lut = <<>>
    /\ ids = <<>>
    /\ tqueue = <<>>
    /\ assigned = <<>>
    /\ handlers = <<>>
    /\ calls = <<>>
    /\ jexc = <<>>
    /\ requested = Null
    /\ again = NoCollect
    /\ OthersIdle

Next ==
    \/ CreateJobDescriptions
    \/ \E j \in DOMAIN jobpc : RunJobConfigure(j)
    \/ \E j \in DOMAIN jobpc : RunJobWriteMapper(j)
    \/ CollectBegin
    \/ CollectLoad
    \/ CollectCycle
    \/ CollectWrite

Spec == Init /\ [][Next]_vars

\* ------------------------------------------- the collect job, run repeatedly
NextAgain ==
    \/ CreateJobDescriptions
    \/ \E j \in DOMAIN jobpc : RunJobConfigure(j)
    \/ \E j \in DOMAIN jobpc : RunJobWriteMapper(j)
    \/ CollectBegin
    \/ CollectLoad
    \/ CollectCycle
    \/ CollectWrite
    \/ CollectAgain

SpecAgain == Init /\ [][NextAgain]_vars

\* ------------------------------------- one upload that covers a 2 x 2 grid
\* The positions of the well samples of a well with 2 x 2 sites.
GridPositions == {<<0, 0>>, <<0, 1>>, <<1, 0>>, <<1, 1>>}

\* One upload of four images of one well, one channel and one time point, one
\* image per grid position, in any order of acquisition.
GridUploads ==
    {<<[dir    |-> <<"uploads", 1>>,
        images |-> [k \in 1..4 |->
                       [w |-> w, y |-> q[k][1], x |-> q[k][2], c |-> 0,
                        z |-> 0, t |-> t]]]>> :
        q \in Orderings(GridPositions), w \in Wells, t \in TPoints}

InitGrid ==
    /\ uploads \in GridUploads
    /\ stage = "init"
    /\ job_descriptions = Null
    /\ jobpc = [j \in 1..NUploads |-> "pending"]
    /\ reads = [j \in 1..NUploads |-> {}]
    /\ files = <<>>
    /\ cycles = <<>>
    /\ cpc = "idle"
    /\ exc = Null
    /\ up = 0
    /\ cycle_count = 0
    /\ global_file_mapper = <<>>
    /\ lut = <<>>
    /\ ids = <<>>
    /\ tqueue = <<>>
    /\ assigned = <<>>
    /\ handlers = <<>>
    /\ calls = <<>>
    /\ jexc = <<>>
    /\ requested = Null
    /\ again = NoCollect
    /\ OthersIdle

SpecGrid == InitGrid /\ [][Next]_vars

\* --------------------------------------- the run jobs, handler call by call
\* The run job of an experiment of one upload of one image, with a handler
\* that finds any of HandlerFindings.
InitRun ==
    /\ \E flat \in [1..1 -> Images] : uploads = <<UploadOf(1, <<1>>, flat)>>
    /\ stage = "init"
    /\ job_descriptions = Null
    /\ jobpc = [j \in 1..NUploads |-> "pending"]
    /\ reads = [j \in 1..NUploads |-> {}]
    /\ files = <<>>
    /\ cycles = <<>>
    /\ cpc = "idle"
    /\ exc = Null
    /\ up = 0
    /\ cycle_count = 0
    /\ global_file_mapper = <<>>
    /\ lut = <<>>
    /\ ids = <<>>
    /\ tqueue = <<>>
    /\ assigned = <<>>
    /\ handlers \in [1..NUploads -> HandlerFindings]
    /\ calls = [j \in 1..NUploads |-> <<>>]
    /\ jexc = [j \in 1..NUploads |-> Null]
    /\ requested = Null
    /\ again = NoCollect
    /\ OthersIdle

NextRun ==
    \/ CreateJobDescriptions
    \/ \E j \in DOMAIN jobpc : RunJobHandler(j)
    \/ \E j \in DOMAIN jobpc : RunJobWriteMapper(j)

SpecRun == InitRun /\ [][NextRun]_vars
\* ------------------------------------------------------- pyramid tile files
\* The keys of the tiles: (level, row, column, channel_layer_id).
TileLevels == {0}
TileRows == {0}
TileColumns == {0, 1}
ChannelLayers == {1}
TileKeys == TileLevels \X TileRows \X TileColumns \X ChannelLayers

\* The tile groups, and the values of a pixel of an 8-bit plane used here.
TileGroups == {0, 1}
PixelValues == {0, 255}

\* The pixel planes put: 2-D, of one pixel.
TilePlanes == [1..1 -> [1..1 -> PixelValues]]

\* The name the pyramid gives the file of a tile: it encodes the level, the
\* row and the column.
TileName(level, row, column) == <<"tile", level, row, column>>

\* PyramidTileFile(name, group, level, row, column, channel_layer_id)
PyramidTileFile(name, group, level, row, column, channel_layer_id) ==
    [name |-> name, group |-> group, level |-> level, row |-> row,
     column |-> column, channel_layer_id |-> channel_layer_id]

\* The columns of the unique constraint of the table.
TileKey(tile) == <<tile.level, tile.row, tile.column, tile.channel_layer_id>>

\* channel_layer.location
LayerLocation(channel_layer_id) == <<"layers", channel_layer_id>>

\* A faulty variant of TileLocation: the name is left out, the tiles of a
\* group share one file.
TileLocationShared(tile) ==
    Join(LayerLocation(tile.channel_layer_id), <<"TileGroup", tile.group>>)

\* PyramidTileFile.location
TileLocation(tile) ==
    Join(Join(LayerLocation(tile.channel_layer_id),
              <<"TileGroup", tile.group>>),
         tile.name)

\* f.read(dtype=np.uint8): the stored values as unsigned 8-bit integers.
ReadUint8(pixels) ==
    [r \in DOMAIN pixels |-> [c \in DOMAIN pixels[r] |-> pixels[r][c] % 256]]

HasTile(key) == \E tile \in tiles : TileKey(tile) = key

\* A tile is created and added to the table; the unique constraint on
\* (level, row, column, channel_layer_id) rejects a second row with the key
\* of an existing one, which leaves the table as it was.
TileCreate ==
    /\ \E key \in TileKeys, group \in TileGroups :
          LET tile == PyramidTileFile(TileName(key[1], key[2], key[3]), group,
                                      key[1], key[2], key[3], key[4])
          IN  /\ ~HasTile(key)
              /\ tiles' = tiles \cup {tile}
    /\ UNCHANGED <<storage, lastput, putgroups, got>>
    /\ UNCHANGED <<metaconfigVars, mosaicVars, channelVars>>

\* The column group of a tile is set to another value.
TileSetGroup ==
    /\ \E tile \in tiles, group \in TileGroups :
          /\ group # tile.group
          /\ tiles' = (tiles \ {tile}) \cup {[tile EXCEPT !.group = group]}
    /\ UNCHANGED <<storage, lastput, putgroups, got>>
    /\ UNCHANGED <<metaconfigVars, mosaicVars, channelVars>>

\* PyramidTileFile.put(image): the pixels are written to the tile's location.
TilePut ==
    /\ \E tile \in tiles, pixels \in TilePlanes :
          /\ storage' = (TileLocation(tile) :> pixels) @@ storage
          /\ lastput' =
                 [k \in DOMAIN lastput \cup {TileKey(tile)} |->
                     IF k = TileKey(tile)
                     THEN [pixels |-> pixels, group |-> tile.group,
                           others |-> FALSE]
                     ELSE [lastput[k] EXCEPT !.others = TRUE]]
          /\ putgroups' = (TileKey(tile) :>
                  ((IF TileKey(tile) \in DOMAIN putgroups
                    THEN putgroups[TileKey(tile)] ELSE {})
                       \cup {tile.group})) @@ putgroups
    /\ UNCHANGED <<tiles, got>>
    /\ UNCHANGED <<metaconfigVars, mosaicVars, channelVars>>

\* PyramidTileFile.get(): the pixels at the tile's location, or the reader's
\* error if there is no file.
TileGet ==
    /\ \E tile \in tiles :
          LET others == IF TileKey(tile) \in DOMAIN lastput
                        THEN lastput[TileKey(tile)].others ELSE FALSE
          IN  got' = IF TileLocation(tile) \in DOMAIN storage
                     THEN [key    |-> TileKey(tile),
                           status |-> "ok",
                           pixels |-> ReadUint8(storage[TileLocation(tile)]),
                           others |-> others,
                           turn   |-> 1 - got.turn]
                     ELSE [key    |-> TileKey(tile),
                           status |-> "IOError",
                           pixels |-> <<>>,
                           others |-> others,
                           turn   |-> 1 - got.turn]
    /\ UNCHANGED <<tiles, storage, lastput, putgroups>>
    /\ UNCHANGED <<metaconfigVars, mosaicVars, channelVars>>

\* The metadata configuration before anything was done with it.
MetaconfigIdle ==
    /\ uploads = <<>>
    /\ stage = "init"
    /\ job_descriptions = Null
    /\ jobpc = <<>>
    /\ reads = <<>>
    /\ files = <<>>
    /\ cycles = <<>>
    /\ cpc = "idle"
    /\ exc = Null
    /\ up = 0
    /\ cycle_count = 0
    /\ global_file_mapper = <<>>
    /\ lut = <<>>
    /\ ids = <<>>
    /\ tqueue = <<>>
    /\ assigned = <<>>
    /\ handlers = <<>>
    /\ calls = <<>>
    /\ jexc = <<>>
    /\ requested = Null
    /\ again = NoCollect

InitTiles == MetaconfigIdle /\ TilesIdle /\ MosaicIdle /\ ChannelIdle

NextTiles ==
    \/ TileCreate
    \/ TileSetGroup
    \/ TilePut
    \/ TileGet

SpecTiles == InitTiles /\ [][NextTiles]_vars

\* ---------------------------------------------------- mosaics and collages
\* The largest grid of images stitched, and the largest displacement given.
MaxGridRows == 3
MaxGridCols == 3
MaxShift == 2

\* The heights and widths of the pixel planes of the images.
PlaneSides == {3, 4}

\* The Python values given as dx or dy: ints from -1 on, a float (such as
\* 1.0 or 1.5; what it is worth plays no role) and None.
Displacements ==
    {[type |-> "int", value |-> v] : v \in (0 - 1)..MaxShift}
        \cup {[type |-> "float", value |-> 1], [type |-> "NoneType", value |-> 0]}

\* The images of a dense grid of rows x cols sites, row by row, all of the
\* same cycle, channel and data type, with planes of height h and width w.
GridImages(rows, cols, h, w) ==
    [k \in 1..(rows * cols) |->
        [well_position_y |-> (k - 1) \div cols,
         well_position_x |-> (k - 1) % cols,
         height          |-> h,
         width           |-> w,
         cycle_name      |-> "cycle_0",
         channel_name    |-> "channel_0",
         dtype           |-> "uint16"]]

\* The arguments of a call of Mosaic.create or Collage.create_from_images.
StitchArguments ==
    {[images |-> GridImages(rows, cols, h, w), dx |-> dx, dy |-> dy,
      stats |-> stats, align |-> align] :
        rows \in 1..MaxGridRows, cols \in 1..MaxGridCols,
        h \in PlaneSides, w \in PlaneSides,
        dx \in Displacements, dy \in Displacements,
        stats \in BOOLEAN, align \in BOOLEAN}

MaxOf(S) == CHOOSE m \in S : \A n \in S : n <= m
MinOf(S) == CHOOSE m \in S : \A n \in S : m <= n

\* A faulty variant of ValidDisplacement: the sign is not checked.
ValidDisplacementSigned(d) == d.type = "int"

\* not (not isinstance(d, int) or d < 0)
ValidDisplacement(d) == d.type = "int" /\ d.value >= 0

\* One thing a stitching call does: op is done, to the image at grid position
\* at where it is done to one image.
Step(op, at) == [op |-> op, at |-> at]

\* A block of a stitched array: the image of that index (one-based) of the
\* images given, or a spacer.
Cell(kind, image) == [kind |-> kind, image |-> image]

\* The blocks of b put to the right of those of a, band by band, or below
\* them.
JoinCells(a, b, direction) ==
    IF direction = "horizontal"
    THEN [r \in 1..MaxOf({Len(a), Len(b)}) |->
            (IF r <= Len(a) THEN a[r] ELSE <<>>)
                \o (IF r <= Len(b) THEN b[r] ELSE <<>>)]
    ELSE a \o b

\* A faulty variant of JoinPlanes: the shim is left out.
JoinPlanesNoShim(a, b, direction, shim) ==
    IF direction = "horizontal"
    THEN [height |-> MinOf({a.height, b.height}), width |-> a.width + b.width,
          cells  |-> JoinCells(a.cells, b.cells, direction)]
    ELSE [height |-> a.height + b.height, width |-> MinOf({a.width, b.width}),
          cells  |-> JoinCells(a.cells, b.cells, direction)]

\* a.join(b, direction, shim=shim): b is put to the right of a, or below it,
\* shim pixels away.
JoinPlanes(a, b, direction, shim) ==
    IF direction = "horizontal"
    THEN [height |-> MinOf({a.height, b.height}),
          width  |-> a.width + shim + b.width,
          cells  |-> JoinCells(a.cells, b.cells, direction)]
    ELSE [height |-> a.height + shim + b.height,
          width  |-> MinOf({a.width, b.width}),
          cells  |-> JoinCells(a.cells, b.cells, direction)]

\* A faulty variant of ReduceJoin: only the first plane of the list is kept.
ReduceJoinFirst(planes, direction, shim) == planes[1]

\* reduce(lambda x, y: x.join(y, direction, shim=shim), planes), for a list
\* that is not empty.
RECURSIVE ReduceJoin(_, _, _)
ReduceJoin(planes, direction, shim) ==
    IF Len(planes) = 1 THEN planes[1]
    ELSE ReduceJoin(<<JoinPlanes(planes[1], planes[2], direction, shim)>>
                        \o SubSeq(planes, 3, Len(planes)),
                    direction, shim)

\* The joins reduce makes on a list of n planes.
ReduceSteps(n, direction) == [i \in 1..(n - 1) |-> Step("join", <<direction>>)]

\* A faulty variant of MosaicGrid: the columns are filled from the right.
MosaicGridMirrored(images) ==
    LET height == MaxOf({images[i].well_position_y : i \in DOMAIN images})
        width  == MaxOf({images[i].well_position_x : i \in DOMAIN images})
    IN  [r \in 0..height |-> [c \in 0..width |->
            LET here == {i \in DOMAIN images :
                            /\ images[i].well_position_y = r
                            /\ images[i].well_position_x = width - c}
            IN  IF here = {} THEN 0 ELSE MaxOf(here)]]

\* Mosaic._build_image_grid(images): for every position up to the largest
\* coordinates, the index of the image that is there (the last one of the
\* list, one-based), or 0 where the grid stays empty.
MosaicGrid(images) ==
    LET height == MaxOf({images[i].well_position_y : i \in DOMAIN images})
        width  == MaxOf({images[i].well_position_x : i \in DOMAIN images})
    IN  [r \in 0..height |-> [c \in 0..width |->
            LET here == {i \in DOMAIN images :
                            /\ images[i].well_position_y = r
                            /\ images[i].well_position_x = c}
            IN  IF here = {} THEN 0 ELSE MaxOf(here)]]

\* The loops of lines 187-231 from grid position (r, c) on; st holds the
\* steps made so far and the loops' variables.
RECURSIVE MosaicLoop(_, _, _, _, _)
MosaicLoop(a, grid, r, c, st) ==
    LET nrows == Cardinality(DOMAIN grid)
        ncols == Cardinality(DOMAIN grid[0])
    IN  IF r = nrows THEN st
        ELSE IF grid[r][c] = 0
        THEN [st EXCEPT !.exc = "AttributeError"]
        ELSE
        LET img   == [height |-> a.images[grid[r][c]].height,
                      width  |-> a.images[grid[r][c]].width,
                      cells  |-> <<<<Cell("image", grid[r][c])>>>>]
            prep  == (IF a.stats THEN <<Step("correct", <<r, c>>)>> ELSE <<>>)
                        \o (IF a.align THEN <<Step("align", <<r, c>>)>>
                            ELSE <<>>)
            st1   == IF c % 2 = 0
                     THEN [st EXCEPT
                             !.steps = @ \o prep,
                             !.previous_img = img,
                             !.col_pairs = IF c = ncols - 1
                                           THEN Append(@, img) ELSE @]
                     ELSE [st EXCEPT
                             !.steps = @ \o prep
                                 \o <<Step("join", <<"horizontal">>)>>,
                             !.col_pairs = Append(@,
                                 JoinPlanes(st.previous_img, img, "horizontal",
                                            0 - a.dx.value))]
        IN  IF c < ncols - 1
            THEN MosaicLoop(a, grid, r, c + 1, st1)
            ELSE
            LET row == ReduceJoin(st1.col_pairs, "horizontal", 0 - a.dx.value)
                st2 == [st1 EXCEPT
                          !.steps = @ \o ReduceSteps(Len(st1.col_pairs),
                                                     "horizontal"),
                          !.col_pairs = <<>>]
                st3 == IF r % 2 = 0
                       THEN [st2 EXCEPT
                               !.previous_row = row,
                               !.row_pairs = IF r = nrows - 1
                                             THEN Append(@, row) ELSE @]
                       ELSE [st2 EXCEPT
                               !.steps = @ \o <<Step("join", <<"vertical">>)>>,
                               !.row_pairs = Append(@,
                                   JoinPlanes(st2.previous_row, row, "vertical",
                                              0 - a.dy.value))]
            IN  MosaicLoop(a, grid, r + 1, 0, st3)

NoPlane == [height |-> 0, width |-> 0, cells |-> <<>>]

\* Mosaic.create(images, dx, dy, stats, align): the exception raised or Null,
\* the steps made, the grid built and the mosaic.
MosaicCreated(a) ==
    IF ~ValidDisplacement(a.dx)
    THEN [exc |-> "ValueError", message |-> "dx", steps |-> <<>>,
          grid |-> <<>>, array |-> NoPlane]
    ELSE IF ~ValidDisplacement(a.dy)
    THEN [exc |-> "ValueError", message |-> "dy", steps |-> <<>>,
          grid |-> <<>>, array |-> NoPlane]
    ELSE
    LET grid == MosaicGrid(a.images)
        st   == MosaicLoop(a, grid, 0, 0,
                    [steps |-> <<Step("_build_image_grid", <<>>)>>,
                     previous_img |-> NoPlane, col_pairs |-> <<>>,
                     previous_row |-> NoPlane, row_pairs |-> <<>>,
                     exc |-> Null])
    IN  IF st.exc # Null
        THEN [exc |-> st.exc, message |-> "", steps |-> st.steps,
              grid |-> grid, array |-> NoPlane]
        ELSE [exc   |-> Null, message |-> "",
              steps |-> st.steps \o ReduceSteps(Len(st.row_pairs), "vertical"),
              grid  |-> grid,
              array |-> ReduceJoin(st.row_pairs, "vertical", 0 - a.dy.value)]

\* Mosaic.create is called with the arguments at hand.
MosaicCreate ==
    /\ mcalled = Null
    /\ mcalled' = "Mosaic.create"
    /\ LET m == MosaicCreated(margs)
       IN  /\ msteps' = m.steps
           /\ mresult' = [exc |-> m.exc, message |-> m.message,
                          height |-> m.array.height, width |-> m.array.width]
           /\ mgrid' = m.grid
           /\ mlayout' = m.array.cells
    /\ UNCHANGED <<margs, metaconfigVars, tileVars, channelVars>>

\* x.merge(y, 'horizontal', -x.width - dx, 0), x.merge(y, 'vertical', 0,
\* -x.height - dy): y is put gap pixels to the right of x, or below it.
MergePlanes(x, y, direction, gap) ==
    IF direction = "horizontal"
    THEN [height |-> MaxOf({x.height, y.height}),
          width  |-> x.width + gap + y.width,
          cells  |-> JoinCells(x.cells, y.cells, direction)]
    ELSE [height |-> x.height + gap + y.height,
          width  |-> MaxOf({x.width, y.width}),
          cells  |-> JoinCells(x.cells, y.cells, direction)]

RECURSIVE ReduceMerge(_, _, _)
ReduceMerge(planes, direction, gap) ==
    IF Len(planes) = 1 THEN planes[1]
    ELSE ReduceMerge(<<MergePlanes(planes[1], planes[2], direction, gap)>>
                         \o SubSeq(planes, 3, Len(planes)),
                     direction, gap)

\* dim = int(np.ceil(len(images) / 2)): the division is the integer division
\* of Python 2, which np.ceil leaves as it is.
CollageDim(n) == n \div 2

\* Collage._build_image_grid(images): a dim x dim grid filled row by row
\* with the indices (one-based) of the images, 0 where it stays empty.
CollageGrid(images) ==
    LET dim == CollageDim(Len(images))
    IN  [i \in 0..(dim - 1) |-> [j \in 0..(dim - 1) |->
            IF i * dim + j < Len(images) THEN i * dim + j + 1 ELSE 0]]

\* What lines 336-358 do for the cells of row i up to the first empty one.
CollageRowSteps(a, grid, i) ==
    LET dim   == Cardinality(DOMAIN grid)
        cells == SortedSeq({j \in 0..(dim - 1) :
                              \A k \in 0..j : grid[i][k] # 0})
    IN  Flatten([n \in DOMAIN cells |->
            (IF a.stats THEN <<Step("correct", <<i, cells[n]>>)>> ELSE <<>>)
                \o (IF a.align THEN <<Step("align", <<i, cells[n]>>)>>
                    ELSE <<>>)
                \o <<Step("pad", <<i, cells[n]>>)>>])
        \o (IF Len(cells) = dim
            THEN [m \in 1..(2 * dim - 1) |-> Step("merge", <<"horizontal">>)]
            ELSE <<>>)

\* A faulty variant of CollageChecks: the element types are compared first.
CollageChecksTypeFirst(images) ==
    IF Cardinality({images[k].dtype : k \in DOMAIN images}) > 1
    THEN [exc |-> "TypeError", message |-> "type"]
    ELSE IF Cardinality({images[k].cycle_name : k \in DOMAIN images}) > 1
    THEN [exc |-> "MetadataError", message |-> "cycle"]
    ELSE IF Cardinality({images[k].channel_name : k \in DOMAIN images}) > 1
    THEN [exc |-> "MetadataError", message |-> "channel"]
    ELSE [exc |-> Null, message |-> ""]

\* Lines 310-318: the exception raised for images of several cycles, channels
\* or element types, with the word of its message that tells which, or Null.
CollageChecks(images) ==
    IF Cardinality({images[k].cycle_name : k \in DOMAIN images}) > 1
    THEN [exc |-> "MetadataError", message |-> "cycle"]
    ELSE IF Cardinality({images[k].channel_name : k \in DOMAIN images}) > 1
    THEN [exc |-> "MetadataError", message |-> "channel"]
    ELSE IF Cardinality({images[k].dtype : k \in DOMAIN images}) > 1
    THEN [exc |-> "TypeError", message |-> "type"]
    ELSE [exc |-> Null, message |-> ""]

\* current_row after the loop of lines 337-361 over row i of a grid without
\* empty cells: every padded image and, j never being grid.shape[1], a column
\* spacer after each.
CollageCurrentRow(grid, i, padded, column_spacer) ==
    LET dim == Cardinality(DOMAIN grid)
    IN  Flatten([n \in 1..dim |->
            <<[padded EXCEPT !.cells = <<<<Cell("image", grid[i][n - 1])>>>>]>>
                \o (IF n - 1 # dim THEN <<column_spacer>> ELSE <<>>)])

\* rows after the loop of lines 335-365: every merged row and, i never being
\* grid.shape[0], a row spacer after each.
CollageRows(grid, padded, column_spacer, row_spacer, dx) ==
    LET dim == Cardinality(DOMAIN grid)
    IN  Flatten([n \in 1..dim |->
            <<ReduceMerge(CollageCurrentRow(grid, n - 1, padded, column_spacer),
                          "horizontal", dx)>>
                \o (IF n - 1 # dim THEN <<row_spacer>> ELSE <<>>)])

\* Collage.create_from_images(images, dx, dy, stats, align): the exception
\* raised or Null, the steps made, the grid built and the collage. rejects
\* tells whether create_spacer_image raises for a negative width.
CollageCreated(a, rejects) ==
    IF ~ValidDisplacement(a.dx)
    THEN [exc |-> "ValueError", message |-> "dx", steps |-> <<>>,
          grid |-> <<>>, array |-> NoPlane]
    ELSE IF ~ValidDisplacement(a.dy)
    THEN [exc |-> "ValueError", message |-> "dy", steps |-> <<>>,
          grid |-> <<>>, array |-> NoPlane]
    ELSE IF CollageChecks(a.images).exc # Null
    THEN [exc |-> CollageChecks(a.images).exc,
          message |-> CollageChecks(a.images).message, steps |-> <<>>,
          grid |-> <<>>, array |-> NoPlane]
    ELSE
    LET grid      == CollageGrid(a.images)
        dim       == Cardinality(DOMAIN grid)
        im_height == MaxOf({a.images[k].height : k \in DOMAIN a.images})
        im_width  == MaxOf({a.images[k].width : k \in DOMAIN a.images})
        column_spacer == [height |-> im_height, width |-> a.dx.value,
                          cells  |-> <<<<Cell("column_spacer", 0)>>>>]
        row_spacer    == [height |-> a.dy.value,
                          width  |-> im_width * dim
                                       + column_spacer.width * (dim - 1),
                          cells  |-> <<<<Cell("row_spacer", 0)>>>>]
        padded    == [height |-> im_height, width |-> im_width,
                      cells |-> <<>>]
        \* the rows that come before the first empty cell, that one included
        reached   == {i \in 0..(dim - 1) :
                         \A k \in 0..(i - 1) : \A j \in 0..(dim - 1) :
                             grid[k][j] # 0}
        steps     == <<Step("_build_image_grid", <<>>),
                       Step("create_spacer_image", <<"column">>),
                       Step("create_spacer_image", <<"row">>)>>
                       \o Flatten([n \in 1..Cardinality(reached) |->
                              CollageRowSteps(a, grid, n - 1)])
        rows      == CollageRows(grid, padded, column_spacer, row_spacer,
                                 a.dx.value)
    IN  IF rejects /\ row_spacer.width < 0
        THEN [exc |-> "Error", message |-> "create_spacer_image",
              steps |-> SubSeq(steps, 1, 3), grid |-> grid, array |-> NoPlane]
        ELSE IF \E i, j \in 0..(dim - 1) : grid[i][j] = 0
        THEN [exc |-> "AttributeError", message |-> "", steps |-> steps,
              grid |-> grid, array |-> NoPlane]
        ELSE IF rows = <<>>
        THEN [exc |-> "TypeError", message |-> "reduce", steps |-> steps,
              grid |-> grid, array |-> NoPlane]
        ELSE [exc   |-> Null, message |-> "",
              steps |-> steps \o [m \in 1..(Len(rows) - 1) |->
                                     Step("merge", <<"vertical">>)],
              grid  |-> grid,
              array |-> ReduceMerge(rows, "vertical", a.dy.value)]

\* Collage.create_from_images is called with the arguments at hand.
CollageCreate ==
    /\ mcalled = Null
    /\ mcalled' = "Collage.create_from_images"
    /\ \E rejects \in BOOLEAN :
        LET m == CollageCreated(margs, rejects)
        IN  /\ msteps' = m.steps
            /\ mresult' = [exc |-> m.exc, message |-> m.message,
                           height |-> m.array.height, width |-> m.array.width]
            /\ mgrid' = m.grid
            /\ mlayout' = m.array.cells
    /\ UNCHANGED <<margs, metaconfigVars, tileVars, channelVars>>

InitMosaic ==
    /\ MetaconfigIdle
    /\ TilesIdle
    /\ ChannelIdle
    /\ margs \in StitchArguments
    /\ mcalled = Null
    /\ msteps = <<>>
    /\ mresult = [exc |-> Null, message |-> "", height |-> 0, width |-> 0]
    /\ mgrid = <<>>
    /\ mlayout = <<>>

NextMosaic ==
    \/ MosaicCreate
    \/ CollageCreate

SpecMosaic == InitMosaic /\ [][NextMosaic]_vars

\* ----------------------------------------------------------------- collages
\* The largest number of images a collage is made of.
MaxCollageImages == 6

\* What the last of several images may differ in from the others.
Differences == SUBSET {"cycle", "channel", "type"}

\* n images for a collage: h x w and w x h planes in turn, the last one of
\* another cycle, channel or element type where differs says so.
CollageImages(n, h, w, differs) ==
    [k \in 1..n |->
        [height |-> IF k % 2 = 1 THEN h ELSE w,
         width  |-> IF k % 2 = 1 THEN w ELSE h,
         cycle_name   |-> IF k = n /\ n > 1 /\ "cycle" \in differs
                          THEN "cycle_1" ELSE "cycle_0",
         channel_name |-> IF k = n /\ n > 1 /\ "channel" \in differs
                          THEN "channel_1" ELSE "channel_0",
         dtype        |-> IF k = n /\ n > 1 /\ "type" \in differs
                          THEN "uint8" ELSE "uint16"]]

CollageArguments ==
    {[images |-> CollageImages(n, h, w, differs), dx |-> dx, dy |-> dy,
      stats |-> stats, align |-> align] :
        n \in 1..MaxCollageImages, h \in PlaneSides, w \in PlaneSides,
        differs \in Differences,
        dx \in Displacements, dy \in Displacements,
        stats \in BOOLEAN, align \in BOOLEAN}

InitCollage ==
    /\ MetaconfigIdle
    /\ TilesIdle
    /\ ChannelIdle
    /\ margs \in CollageArguments
    /\ mcalled = Null
    /\ msteps = <<>>
    /\ mresult = [exc |-> Null, message |-> "", height |-> 0, width |-> 0]
    /\ mgrid = <<>>
    /\ mlayout = <<>>

NextCollage == CollageCreate

SpecCollage == InitCollage /\ [][NextCollage]_vars

\* ------------------------------------------------------ channel image files
\* The largest number of planes of an image put, and the largest z index a
\* plane is put at.
MaxPlanes == 2
MaxZ == 2

\* The images put: one pixel value per plane (dimensions[2] is the number of
\* planes).
ChannelImages ==
    UNION {[1..n -> PixelValues] : n \in 1..MaxPlanes}

\* The z arguments of put: None, or an index.
ZArguments ==
    {[given |-> FALSE, index |-> 0]}
        \cup {[given |-> TRUE, index |-> z] : z \in 0..MaxZ}

\* f.list_datasets(pattern='z_\d+'): the datasets of the file, by z.
ListDatasets(file) == DOMAIN file

\* f.write('z_%d' % z, array)
WriteDataset(file, z, array) ==
    [i \in DOMAIN file \cup {z} |-> IF i = z THEN array ELSE file[i]]

\* image.iter_planes(): the planes of the image with their z index, from 0.
IterPlanes(image) == [z \in 0..(Len(image) - 1) |-> image[z + 1]]

\* A faulty variant of PutPlane: n_planes is counted up.
PutPlaneCounting(file, n, image, z) ==
    [file |-> WriteDataset(file, z, image[1]), n_planes |-> n + 1]

\* Lines 371-373: the plane is written to the file as dataset z and n_planes
\* becomes the number of datasets the file lists.
PutPlane(file, n, image, z) ==
    LET written == WriteDataset(file, z, image[1])
    IN  [file |-> written, n_planes |-> Cardinality(ListDatasets(written))]

\* A faulty variant of PutImage: the file is not truncated.
PutImageAppending(file, image) ==
    [file |-> [z \in DOMAIN file \cup DOMAIN IterPlanes(image) |->
                  IF z \in DOMAIN IterPlanes(image)
                  THEN IterPlanes(image)[z] ELSE file[z]],
     n_planes |-> Len(image)]

\* Lines 375-378: the file is truncated, every plane of the image is written
\* to it and n_planes becomes image.dimensions[2].
PutImage(file, image) ==
    [file |-> IterPlanes(image), n_planes |-> Len(image)]

\* ChannelImageFile.put(image, z). exists_ok tells whether the writer accepts
\* a write to a dataset the file already has; where it does not, write
\* raises, before n_planes is assigned.
ChannelPut ==
    \E image \in ChannelImages, z \in ZArguments, exists_ok \in BOOLEAN :
        LET e == IF z.given /\ Len(image) > 1 THEN "ValueError"
                 ELSE IF z.given /\ z.index \in ListDatasets(cfile)
                         /\ ~exists_ok THEN "IOError"
                 ELSE Null
            put == IF z.given THEN PutPlane(cfile, n_planes, image, z.index)
                   ELSE PutImage(cfile, image)
        IN  /\ cput' = [called |-> TRUE, image |-> image, z |-> z, exc |-> e,
                        before |-> cfile]
            /\ IF e = Null
               THEN cfile' = put.file /\ n_planes' = put.n_planes
               ELSE UNCHANGED <<cfile, n_planes>>
            /\ UNCHANGED <<metaconfigVars, tileVars, mosaicVars>>

InitChannel == MetaconfigIdle /\ TilesIdle /\ MosaicIdle /\ ChannelIdle

NextChannel == ChannelPut

SpecChannel == InitChannel /\ [][NextChannel]_vars

\* ------------------------------------------------------------- properties
IsInjective(q) == \A i, j \in DOMAIN q : i # j => q[i] # q[j]

\* create_job_descriptions has returned job descriptions.
JobsCreated == stage \notin {"init", "not_supported"}

RunOutputs(d) ==
    Range(d.outputs.metadata_files) \cup Range(d.outputs.mapper_files)

\* C1: create_job_descriptions returns one run description per upload, in
\* upload order (description i has id i and is built from upload i), and the
\* collect description's metadata_files and mapper_files inputs are the union
\* of the run descriptions' outputs of that name, each path once.
C1_PartitionComplete ==
    JobsCreated =>
        LET run     == job_descriptions.run
            collect == job_descriptions.collect
        IN  /\ Len(run) = NUploads
            /\ \A i \in DOMAIN run :
                /\ run[i].id = i
                /\ run[i].outputs.metadata_files =
                       <<Join(uploads[i].dir, "image_metadata_file")>>
                /\ run[i].outputs.mapper_files =
                       <<Join(uploads[i].dir, "image_mapper_file")>>
                /\ Len(run[i].inputs.uploaded_image_files) =
                       Len(uploads[i].images)
            /\ Range(collect.inputs.metadata_files) =
                   UNION {Range(run[i].outputs.metadata_files) : i \in DOMAIN run}
            /\ Range(collect.inputs.mapper_files) =
                   UNION {Range(run[i].outputs.mapper_files) : i \in DOMAIN run}
            /\ IsInjective(collect.inputs.metadata_files)
            /\ IsInjective(collect.inputs.mapper_files)
            /\ Len(collect.inputs.metadata_files) = NUploads
            /\ Len(collect.inputs.mapper_files) = NUploads

C1_Witness == JobsCreated /\ NUploads = 2

\* C2: the collect job has started only if every run job has completed
\* successfully; once a run job has failed the stage is failed and the
\* collect job is not started.
C2_CollectBarrier ==
    /\ cpc # "idle" => \A j \in DOMAIN jobpc : jobpc[j] = "done"
    /\ (\E j \in DOMAIN jobpc : jobpc[j] = "failed") =>
           (stage = "failed" /\ cpc = "idle")

C2_Witness ==
    /\ NUploads = 2
    /\ cpc = "load"
    /\ \A j \in DOMAIN jobpc : jobpc[j] = "done"

\* The metadata file of upload j describes the images of upload j.
DescribesUpload(md, j) ==
    /\ Len(md) = Len(uploads[j].images)
    /\ \A k \in DOMAIN md :
        /\ md[k].AcquiredDate = <<j, k>>
        /\ md[k].w = uploads[j].images[k].w
        /\ md[k].x = uploads[j].images[k].x
        /\ md[k].t = uploads[j].images[k].t

\* C3: the run jobs' output sets are pairwise disjoint, a run job reads only
\* the inputs of its own description and no output of another run job, the
\* run jobs write nothing but their own outputs, and in whatever order their
\* steps interleave the files of an upload hold what its own job computes from
\* the upload's own inputs.
C3_RunJobsIndependent ==
    JobsCreated =>
        LET run == job_descriptions.run
        IN  /\ \A i, j \in DOMAIN run :
                   i # j => RunOutputs(run[i]) \cap RunOutputs(run[j]) = {}
            /\ \A j \in DOMAIN run :
                   reads[j] \subseteq
                       (Range(run[j].inputs.uploaded_image_files)
                            \cup Range(run[j].inputs.uploaded_additional_files)
                            \cup Range(run[j].inputs.ome_xml_files))
            /\ \A j, k \in DOMAIN run :
                   j # k => reads[j] \cap RunOutputs(run[k]) = {}
            /\ cpc = "idle" =>
                   DOMAIN files \subseteq
                       UNION {RunOutputs(run[j]) :
                                  j \in {i \in DOMAIN run : jobpc[i] # "pending"}}
            /\ \A j \in DOMAIN run :
                /\ jobpc[j] \in {"metadata_written", "done"} =>
                       DescribesUpload(files[run[j].outputs.metadata_files[1]], j)
                /\ jobpc[j] = "done" =>
                       LET fmap == files[run[j].outputs.mapper_files[1]]
                       IN  /\ Len(fmap) = Len(uploads[j].images)
                           /\ \A k \in DOMAIN fmap :
                               /\ fmap[k].ref_index = k - 1
                               /\ fmap[k].files = <<k>>

\* Job 2 has run from start to end between the two writes of job 1.
C3_Witness ==
    /\ NUploads = 2
    /\ jobpc[1] = "metadata_written"
    /\ jobpc[2] = "done"

TotalUploadImages ==
    SumSeq([i \in 1..NUploads |-> Len(files[MetadataPath(uploads[i])])])

TotalCycleImages ==
    SumSeq([i \in 1..Len(cycles) |-> Len(files[CycleMetadataPath(cycles[i])])])

\* C4: when collect_job_output has completed, the cycle metadata tables hold
\* as many images in total as the upload metadata tables.
C4_CycleConservation ==
    cpc = "done" => TotalCycleImages = TotalUploadImages

C4_Witness ==
    /\ cpc = "done"
    /\ NUploads = 2
    /\ TotalUploadImages = 2

\* The distinct time points of the images of upload u.
TPointsOfUpload(u) == {uploads[u].images[k].t : k \in DOMAIN uploads[u].images}

\* C5: collect_job_output assigns the cycle indices 0, 1, 2, ... without gaps,
\* to the uploads in ingestion order and, within one upload, to its distinct
\* time points in ascending order: when a time point of an upload gets its
\* cycle, every smaller time point of that upload has got an earlier one.
C5_CycleOrder ==
    /\ \A i \in DOMAIN assigned : assigned[i].cycle = i - 1
    /\ \A i, j \in DOMAIN assigned :
           i < j => assigned[i].upload <= assigned[j].upload
    /\ \A i \in DOMAIN assigned :
           \A t \in TPointsOfUpload(assigned[i].upload) :
               t < assigned[i].t =>
                   \E j \in 1..(i - 1) :
                       /\ assigned[j].upload = assigned[i].upload
                       /\ assigned[j].t = t

KeyOf(im) == <<im.w, im.y, im.x, im.c, im.t>>

\* Two samples of upload u share one lookup key: the key maps to more than one
\* reference id.
HasDuplicateKey(u) ==
    \E k1, k2 \in DOMAIN uploads[u].images :
        k1 # k2 /\ KeyOf(uploads[u].images[k1]) = KeyOf(uploads[u].images[k2])

\* collect_job_output has gone through the loop body of upload u.
Processed(u) ==
    /\ cpc \in {"load", "cycle", "write", "done"}
    /\ u < up \/ (u = up /\ cpc \in {"write", "done"})

\* The entries of assigned that belong to upload u.
AssignedOf(u) == {i \in DOMAIN assigned : assigned[i].upload = u}

\* C7: for an upload with n >= 1 distinct time points and one reference id per
\* sample key, collect_job_output does not fail, and once it has processed the
\* upload there is one cycle per time point, which holds the images of that
\* time point and as many file mapper elements.
C7_OneCyclePerTimePoint ==
    /\ cpc = "error" => HasDuplicateKey(up)
    /\ \A u \in 1..NUploads :
           Processed(u) =>
               /\ {assigned[i].t : i \in AssignedOf(u)} = TPointsOfUpload(u)
               /\ Cardinality(AssignedOf(u)) = Cardinality(TPointsOfUpload(u))
               /\ \A i \in AssignedOf(u) :
                      LET md == files[CycleMetadataPath(
                                          cycles[assigned[i].cycle + 1])]
                          of_t == {k \in DOMAIN uploads[u].images :
                                      uploads[u].images[k].t = assigned[i].t}
                      IN  /\ {md[n].AcquiredDate : n \in DOMAIN md} =
                                 {<<u, k>> : k \in of_t}
                          /\ Cardinality(
                                 {e \in DOMAIN global_file_mapper :
                                     global_file_mapper[e].ref_file[2] =
                                         assigned[i].cycle}) =
                                 Cardinality(of_t)

\* C8: when a sample key of the upload in process maps to more than one
\* reference id, collect_job_output raises MetadataError; it does not go on
\* with the lookup table.
C8_DuplicateKeyRaises ==
    (cpc \in {"cycle", "write", "error"} /\ HasDuplicateKey(up)) =>
        (cpc = "error" /\ exc = "MetadataError")

\* The elements of the global file mapper made of element k of upload u.
ElementsOf(u, k) ==
    {e \in DOMAIN global_file_mapper :
        global_file_mapper[e].files =
            <<Join(image_dir(uploads[u]), image_files(uploads[u])[k])>>}

\* C9: when collect_job_output has ended on uploads whose sample keys each
\* map to one reference id, every element of every upload's file mapper is in
\* the global file mapper exactly once; its reference index is the index, in
\* its cycle's metadata table, of the image it referred to, its reference id
\* that image's ID and its destination the cycle's image directory joined with
\* that image's name.
C9_EveryElementOnce ==
    (cpc \in {"done", "error"} /\ \A u \in 1..NUploads : ~HasDuplicateKey(u)) =>
        \A u \in 1..NUploads :
            \A k \in DOMAIN uploads[u].images :
                /\ Cardinality(ElementsOf(u, k)) = 1
                /\ \A e \in ElementsOf(u, k) :
                       LET el  == global_file_mapper[e]
                           dir == <<"cycles", el.ref_file[2]>>
                           md  == files[Join(dir, "image_metadata_file")]
                           im  == md[el.ref_index + 1]
                       IN  /\ el.ref_index + 1 \in DOMAIN md
                           /\ im.AcquiredDate = <<u, k>>
                           /\ el.ref_id = im.ID
                           /\ el.ref_file = Join(Join(dir, "image_dir"), im.Name)

\* C10: in every cycle metadata table the image indices are 0..n-1 in order;
\* the translation table of every time point of the upload in process is
\* one-to-one, and no two elements of the global file mapper that belong to
\* one cycle share a reference index.
C10_FreshIndices ==
    /\ \A c \in DOMAIN cycles :
           LET md == files[CycleMetadataPath(cycles[c])]
           IN  \A n \in DOMAIN md : md[n].ID = ImageID(n - 1)
    /\ cpc = "cycle" =>
           \A t \in Range(tqueue) :
               LET fm_lut == FmLut(lut, ids, t)
               IN  \A r1, r2 \in DOMAIN fm_lut :
                       r1 # r2 => fm_lut[r1] # fm_lut[r2]
    /\ \A e1, e2 \in DOMAIN global_file_mapper :
           (e1 # e2 /\ global_file_mapper[e1].ref_file[2] =
                           global_file_mapper[e2].ref_file[2]) =>
               global_file_mapper[e1].ref_index # global_file_mapper[e2].ref_index

\* A cycle of two images whose file mapper elements have been rewritten.
C10_Witness ==
    /\ cpc = "done"
    /\ \E c \in DOMAIN cycles : Len(files[CycleMetadataPath(cycles[c])]) >= 2
    /\ \E e \in DOMAIN global_file_mapper : global_file_mapper[e].ref_index = 1

\* p is a prefix of q.
IsPrefix(p, q) == Len(p) <= Len(q) /\ \A i \in DOMAIN p : p[i] = q[i]

\* The number of file mapper elements of the uploads 1..k.
ElementsUpTo(k) ==
    SumSeq([u \in 1..k |-> Len(files[MapperPath(uploads[u])])])

\* mapper holds the rewritten elements of the uploads 1..k, in order: those
\* of upload u follow those of the uploads before it, element by element,
\* with the source files in the upload's image directory and the destination
\* in a cycle that was assigned to the upload.
HoldsUploads(mapper, k) ==
    /\ Len(mapper) = ElementsUpTo(k)
    /\ \A u \in 1..k :
       \A i \in DOMAIN files[MapperPath(uploads[u])] :
           LET element == files[MapperPath(uploads[u])][i]
               el      == mapper[ElementsUpTo(u - 1) + i]
           IN  /\ el.series = element.series
               /\ el.planes = element.planes
               /\ el.files = [f \in DOMAIN element.files |->
                                 Join(image_dir(uploads[u]), element.files[f])]
               /\ \E a \in AssignedOf(u) :
                      /\ el.ref_file[2] = assigned[a].cycle
                      /\ el.ref_index + 1 \in
                             DOMAIN files[CycleMetadataPath(cycles[assigned[a].cycle + 1])]

\* C11: the global file mapper is written only at the end of the processing
\* of an upload; what is written after upload k holds the rewritten elements
\* of the uploads 1..k, and what was persisted before a write is a prefix of
\* what is persisted after it.
C11_MapperAccumulates ==
    [][/\ (GlobalMapperPath \in DOMAIN files
             /\ files'[GlobalMapperPath] # files[GlobalMapperPath])
           => (cpc = "write" /\ IsPrefix(files[GlobalMapperPath],
                                         files'[GlobalMapperPath]))
       /\ (GlobalMapperPath \notin DOMAIN files
             /\ GlobalMapperPath \in DOMAIN files') => cpc = "write"
       /\ cpc = "write" =>
             /\ GlobalMapperPath \in DOMAIN files'
             /\ HoldsUploads(files'[GlobalMapperPath], up)]_vars

\* The mapper was written after each of two uploads and holds an element of
\* each.
C11_Witness ==
    /\ cpc = "done"
    /\ NUploads = 2
    /\ GlobalMapperPath \in DOMAIN files
    /\ Len(files[GlobalMapperPath]) = 2
    /\ files[GlobalMapperPath][1].files[1][2] = 1
    /\ files[GlobalMapperPath][2].files[1][2] = 2

\* C12: with one upload of a single time point and 4 images at the grid
\* positions (0,0), (0,1), (1,0), (1,1), collect_job_output does not fail and
\* ends with exactly 1 cycle; the image at position n of its table has the
\* index n - 1, so the 4 images carry the indices 0, 1, 2, 3, each once, one
\* image per grid position, and the 4 file mapper elements refer to the
\* indices 0..3, each once.
C12_GridOneCycle ==
    /\ cpc # "error"
    /\ cpc = "done" =>
        /\ Len(cycles) = 1
        /\ LET md == files[CycleMetadataPath(cycles[1])]
           IN  /\ Len(md) = 4
               /\ \A n \in DOMAIN md : md[n].ID = ImageID(n - 1)
               /\ {RefIndex(md[n].ID) : n \in DOMAIN md} = 0..3
               /\ \A p \in GridPositions :
                      Cardinality({n \in DOMAIN md :
                                      <<md[n].y, md[n].x>> = p}) = 1
               /\ Len(global_file_mapper) = 4
               /\ \A i \in 0..3 :
                      Cardinality({e \in DOMAIN global_file_mapper :
                          global_file_mapper[e].ref_index = i}) = 1

\* collect_job_output has ended on the grid upload, whose images were not
\* acquired in the order of the cycle's table.
C12_Witness ==
    /\ cpc = "done"
    /\ NUploads = 1
    /\ Len(uploads[1].images) = 4
    /\ {<<uploads[1].images[k].y, uploads[1].images[k].x>> : k \in 1..4}
           = GridPositions
    /\ \E e \in DOMAIN global_file_mapper :
           global_file_mapper[e].ref_index # e - 1

\* C14: a run job that has failed, at whatever step, has left both of its
\* output files as they were before it started (no file is there before a
\* job runs); in particular the metadata file is never there without the
\* file mapper of the same job.
C14_FailedJobLeavesOutputs ==
    \A j \in DOMAIN jobpc :
        jobpc[j] = "failed" =>
            /\ MetadataPath(uploads[j]) \notin DOMAIN files
            /\ MapperPath(uploads[j]) \notin DOMAIN files

\* The position of the first call of method m among the calls of job j, 0 if
\* the job has not called it.
FirstCall(j, m) ==
    IF \E i \in DOMAIN calls[j] : calls[j][i] = m
    THEN CHOOSE i \in DOMAIN calls[j] :
             calls[j][i] = m /\ \A k \in 1..(i - 1) : calls[j][k] # m
    ELSE 0

\* C13: a run job matches the file names only when determine_missing_metadata
\* reported missing fields after the image files and the additional files
\* were configured, and then right after that report; it ends with
\* MetadataError, without matching file names, when fields are missing and
\* neither batch['regex'] nor handler.REGEX is there, and it ends with
\* MetadataError when fields are still missing after the file names were
\* matched, before any grid coordinates are determined.
C13_FilenameFallback ==
    \A j \in DOMAIN jobpc :
        jobpc[j] # "pending" =>
            LET h == handlers[j]
                fallback == FirstCall(j, "configure_metadata_from_filenames")
            IN  /\ SubSeq(calls[j], 1, 3) =
                       <<"configure_ome_metadata_from_image_files",
                         "configure_ome_metadata_from_additional_files",
                         "determine_missing_metadata">>
                /\ fallback # 0 =>
                       (h.missing_md # {} /\ (h.regex \/ h.REGEX)
                            /\ fallback = 4)
                /\ (h.missing_md # {} /\ (h.regex \/ h.REGEX)) => fallback # 0
                /\ (h.missing_md # {} /\ ~h.regex /\ ~h.REGEX) =>
                       (jobpc[j] = "failed" /\ jexc[j] = "MetadataError"
                            /\ Len(calls[j]) = 3)
                /\ (fallback # 0 /\ h.missing_after # {}) =>
                       (jobpc[j] = "failed" /\ jexc[j] = "MetadataError"
                            /\ Len(calls[j]) = 5)

\* A job ended with MetadataError after its file names were matched, with the
\* handler's own pattern only.
C13_Witness ==
    \E j \in DOMAIN jobpc :
        /\ jobpc[j] = "failed"
        /\ jexc[j] = "MetadataError"
        /\ ~handlers[j].regex
        /\ FirstCall(j, "configure_metadata_from_filenames") = 4
        /\ handlers[j].missing_after = {"tpoint"}

\* C15: a run job calls the stage-position strategy before the layout
\* strategy, and the layout strategy only right after the stage-position
\* strategy raised MetadataError; when the stage-position strategy succeeds
\* the layout strategy is not called; when the layout strategy raises, the
\* job fails with that error and neither of its outputs is written.
C15_StrategyOrder ==
    \A j \in DOMAIN jobpc :
        jobpc[j] # "pending" =>
            LET h == handlers[j]
                stagepos == FirstCall(j,
                    "determine_grid_coordinates_from_stage_positions")
                layout == FirstCall(j,
                    "determine_grid_coordinates_from_layout")
            IN  /\ layout # 0 =>
                       (stagepos # 0 /\ layout = stagepos + 1
                            /\ h.stage_positions = "MetadataError")
                /\ (stagepos # 0 /\ h.stage_positions = "MetadataError")
                       => layout # 0
                /\ (stagepos # 0 /\ h.stage_positions = "ok") => layout = 0
                /\ (layout # 0 /\ h.layout = "MetadataError") =>
                       /\ jobpc[j] = "failed"
                       /\ jexc[j] = "MetadataError"
                       /\ Len(calls[j]) = layout
                       /\ MetadataPath(uploads[j]) \notin DOMAIN files
                       /\ MapperPath(uploads[j]) \notin DOMAIN files

\* A job whose stage positions were not available and whose layout strategy
\* raised has failed.
C15_Witness ==
    \E j \in DOMAIN jobpc :
        /\ jobpc[j] = "failed"
        /\ handlers[j].stage_positions = "MetadataError"
        /\ handlers[j].layout = "MetadataError"
        /\ FirstCall(j, "determine_grid_coordinates_from_layout") # 0

\* C16: once create_job_descriptions was called with a format that is
\* neither 'default' nor one of the supported formats, it has raised
\* NotSupportedError and no job description exists, no run job has started
\* and no file was written; with any other format it has not raised.
C16_UnknownFormatRejected ==
    stage # "init" =>
        IF requested.format = "default"
               \/ requested.format \in SUPPORT_FOR_ADDITIONAL_FILES
        THEN stage # "not_supported"
        ELSE /\ stage = "not_supported"
             /\ job_descriptions = Null
             /\ \A j \in DOMAIN jobpc : jobpc[j] = "pending"
             /\ files = <<>>

\* create_job_descriptions was called for an experiment with uploads and a
\* format that is not known.
C16_Witness ==
    /\ stage = "not_supported"
    /\ requested.format = "nd2"
    /\ NUploads = 2

C18_NoCopyUnderEarlierGroup ==
    \A tile \in tiles :
        LET key == TileKey(tile)
        IN  (/\ key \in DOMAIN putgroups
             /\ Cardinality(putgroups[key]) = 2
             /\ lastput[key].group = tile.group) =>
                /\ Cardinality({row \in tiles : TileKey(row) = key}) = 1
                /\ TileLocation(tile) \in DOMAIN storage
                /\ ReadUint8(storage[TileLocation(tile)]) = lastput[key].pixels
                /\ \A group \in putgroups[key] \ {tile.group} :
                       TileLocation([tile EXCEPT !.group = group])
                           \notin DOMAIN storage

\* The arguments describe a dense grid of rows x cols planes of height h and
\* width w.
IsDenseGrid(rows, cols, h, w) == margs.images = GridImages(rows, cols, h, w)

\* C19: joining two planes of height H and width W horizontally with shim
\* -dx gives width 2W - dx and height H, vertically with shim -dy height
\* 2H - dy and width W; the mosaic Mosaic.create returns for a dense grid of
\* R x C planes of height H and width W has height R*H - (R-1)*dy and width
\* C*W - (C-1)*dx, for dx = dy = 0 the sum of the heights of the rows by the
\* sum of the widths of the columns.
C19_StitchDimensions ==
    /\ \A h \in PlaneSides, w \in PlaneSides, d \in 0..MaxShift :
          LET plane == [height |-> h, width |-> w, cells |-> <<>>]
              right == JoinPlanes(plane, plane, "horizontal", 0 - d)
              below == JoinPlanes(plane, plane, "vertical", 0 - d)
          IN  /\ <<right.height, right.width>> = <<h, 2 * w - d>>
              /\ <<below.height, below.width>> = <<2 * h - d, w>>
    /\ (mcalled = "Mosaic.create" /\ mresult.exc = Null) =>
          \A rows \in 1..MaxGridRows, cols \in 1..MaxGridCols,
             h \in PlaneSides, w \in PlaneSides :
              IsDenseGrid(rows, cols, h, w) =>
                  /\ mresult.height = rows * h - (rows - 1) * margs.dy.value
                  /\ mresult.width = cols * w - (cols - 1) * margs.dx.value
                  /\ (margs.dx.value = 0 /\ margs.dy.value = 0) =>
                         /\ mresult.height = SumSeq([r \in 1..rows |-> h])
                         /\ mresult.width = SumSeq([c \in 1..cols |-> w])

\* A mosaic of a grid with an odd number of rows and an even number of
\* columns was made with displacements in both directions.
C19_Witness ==
    /\ mcalled = "Mosaic.create"
    /\ mresult.exc = Null
    /\ \E h \in PlaneSides, w \in PlaneSides : IsDenseGrid(3, 2, h, w)
    /\ margs.dx.value = 1
    /\ margs.dy.value = 2

CyclesOf(images) == {images[k].cycle_name : k \in DOMAIN images}
ChannelsOf(images) == {images[k].channel_name : k \in DOMAIN images}
TypesOf(images) == {images[k].dtype : k \in DOMAIN images}

\* The call of Collage.create_from_images at hand got past the checks of dx
\* and dy.
CollageCalled ==
    /\ mcalled = "Collage.create_from_images"
    /\ ValidDisplacement(margs.dx)
    /\ ValidDisplacement(margs.dy)

\* The call raised that exception with that message before it built a grid,
\* padded or merged anything.
FailedEarly(e, message) ==
    /\ mresult.exc = e
    /\ mresult.message = message
    /\ msteps = <<>>
    /\ mgrid = <<>>
    /\ mlayout = <<>>

\* C21: Collage.create_from_images fails with MetadataError for images of
\* several cycles, else with MetadataError for images of several channels,
\* else with TypeError for images of several element types, each time before
\* any grid building, padding or merging.
C21_ChecksInOrder ==
    CollageCalled =>
        /\ Cardinality(CyclesOf(margs.images)) > 1
              => FailedEarly("MetadataError", "cycle")
        /\ (Cardinality(CyclesOf(margs.images)) = 1
                /\ Cardinality(ChannelsOf(margs.images)) > 1)
              => FailedEarly("MetadataError", "channel")
        /\ (Cardinality(CyclesOf(margs.images)) = 1
                /\ Cardinality(ChannelsOf(margs.images)) = 1
                /\ Cardinality(TypesOf(margs.images)) > 1)
              => FailedEarly("TypeError", "type")

\* Images of one cycle and one channel but two element types were given, and
\* the call failed with TypeError.
C21_Witness ==
    /\ CollageCalled
    /\ Cardinality(CyclesOf(margs.images)) = 1
    /\ Cardinality(ChannelsOf(margs.images)) = 1
    /\ Cardinality(TypesOf(margs.images)) = 2
    /\ mresult.exc = "TypeError"
    /\ msteps = <<>>

\* The call of Collage.create_from_images at hand built its grid.
GridBuilt == CollageCalled /\ msteps # <<>>

\* The number of cells per side of the grid the call built.
Side == Cardinality(DOMAIN mgrid)

\* ceil(n / 2)
CeilHalf(n) == (n + 1) \div 2

\* C22: for n images Collage._build_image_grid returns a square grid of
\* ceil(n/2) cells per side, filled row by row with the images in input
\* order: image k at row k div side, column k mod side.
C22_GridCeilSide ==
    GridBuilt =>
        LET n == Len(margs.images)
        IN  /\ Side = CeilHalf(n)
            /\ \A i \in DOMAIN mgrid : Cardinality(DOMAIN mgrid[i]) = Side
            /\ \A k \in 0..(n - 1) :
                  k \div Side < Side => mgrid[k \div Side][k % Side] = k + 1

\* The grid the call built has an empty cell.
HasGap == \E i \in DOMAIN mgrid : \E j \in DOMAIN mgrid[i] : mgrid[i][j] = 0

\* C23: when the grid built for a collage has empty cells,
\* Collage.create_from_images still completes and returns a collage.
C23_GapsTolerated ==
    (GridBuilt /\ HasGap) => (mresult.exc = Null /\ mlayout # <<>>)

\* The latest put to the channel image file was one without a z index, and it
\* returned.
PutWithoutZ == cput.called /\ ~cput.z.given /\ cput.exc = Null

\* C24: after ChannelImageFile.put without a z index the file holds exactly
\* the planes of the image given, and no plane an earlier put stored.
C24_PutReplacesAllPlanes ==
    PutWithoutZ =>
        /\ ListDatasets(cfile) = 0..(Len(cput.image) - 1)
        /\ \A z \in ListDatasets(cfile) : cfile[z] = cput.image[z + 1]

\* An image of one plane was put without a z index to a file that held a
\* plane at a larger z index and another plane at index 0.
C24_Witness ==
    /\ PutWithoutZ
    /\ Len(cput.image) = 1
    /\ MaxZ \in ListDatasets(cput.before)
    /\ 0 \in ListDatasets(cput.before)
    /\ cput.before[0] # cput.image[1]
    /\ MaxZ \notin ListDatasets(cfile)

\* C26: after any sequence of ChannelImageFile.put calls on a new file,
\* n_planes is the number of z-plane datasets the file holds.
C26_PlanesCounted == n_planes = Cardinality(ListDatasets(cfile))

\* A plane was put at a z index the file already had a dataset for, in a file
\* of several planes, and put returned.
C26_Witness ==
    /\ cput.called
    /\ cput.z.given
    /\ cput.exc = Null
    /\ cput.z.index \in ListDatasets(cput.before)
    /\ cput.before[cput.z.index] # cput.image[1]
    /\ n_planes > 1

\* A collect job that was run after another one on the same uploads has
\* ended.
CollectedAgain == again.runs > 1 /\ cpc \in {"done", "error"}

\* The file mapper persisted, as a list of at most one element.
Persisted ==
    IF GlobalMapperPath \in DOMAIN files THEN <<files[GlobalMapperPath]>>
    ELSE <<>>

\* C27: a collect job run a second time on the same uploads reuses the cycles
\* of the first run: it ends as the first did, and the cycles of the
\* experiment and the persisted file mapper are those the first run left.
C27_CollectIdempotent ==
    CollectedAgain =>
        /\ cpc = again.ended
        /\ cycles = again.cycles
        /\ Persisted = again.persisted

\* A second collect job has ended on an experiment of two uploads, for which
\* the first one had made two cycles and had persisted a file mapper of two
\* elements.
C27_Witness ==
    /\ CollectedAgain
    /\ cpc = "done"
    /\ NUploads = 2
    /\ Len(again.cycles) = 2
    /\ Len(again.persisted) = 1
    /\ Len(again.persisted[1]) = 2

\* The places of the mosaic (band, block) that hold image k.
PlacesOf(k) ==
    {<<r, c>> \in (DOMAIN mlayout) \X (1..(MaxGridCols + 1)) :
        c \in DOMAIN mlayout[r] /\ mlayout[r][c] = Cell("image", k)}

\* C28: the mosaic Mosaic.create returns holds every image of the grid
\* exactly once, the image of grid row y and grid column x as block x of band
\* y (columns from left to right, rows from top to bottom), for grids of an
\* odd and of an even number of rows and columns, a single row or column
\* included.
C28_EveryImageOnceInOrder ==
    (mcalled = "Mosaic.create" /\ mresult.exc = Null) =>
        /\ \A k \in DOMAIN margs.images :
              PlacesOf(k) = {<<margs.images[k].well_position_y + 1,
                               margs.images[k].well_position_x + 1>>}
        /\ SumSeq([r \in DOMAIN mlayout |-> Len(mlayout[r])])
              = Len(margs.images)

\* A mosaic was made of a grid of three rows and two columns: an odd and an
\* even number.
C28_Witness ==
    /\ mcalled = "Mosaic.create"
    /\ mresult.exc = Null
    /\ Len(margs.images) = 6
    /\ Cardinality(DOMAIN mgrid) = 3
    /\ Len(mlayout) = 3
    /\ \A r \in DOMAIN mlayout : Len(mlayout[r]) = 2

\* The cells of the grid the call built that hold image k.
CellsOf(k) ==
    {<<i, j>> \in (DOMAIN mgrid) \X (0..MaxCollageImages) :
        j \in DOMAIN mgrid[i] /\ mgrid[i][j] = k}

\* C29: the grid Collage._build_image_grid builds for n >= 1 images has at
\* least n cells and every one of the images is in exactly one cell.
C29_EveryImagePlaced ==
    GridBuilt =>
        /\ Side * Side >= Len(margs.images)
        /\ \A k \in DOMAIN margs.images : Cardinality(CellsOf(k)) = 1

\* The number of blocks of that kind in band r of the array returned.
BlocksIn(r, kind) ==
    Cardinality({c \in DOMAIN mlayout[r] : mlayout[r][c].kind = kind})

\* The bands of the array returned that hold images.
ImageBands == {r \in DOMAIN mlayout : BlocksIn(r, "image") > 0}

\* C30: in a collage over a grid of R rows and C columns every row has
\* exactly C - 1 column spacers and the collage has exactly R - 1 row
\* spacers: no spacer follows the last image of a row or the last row.
C30_SpacersOnlyBetween ==
    (mcalled = "Collage.create_from_images" /\ mresult.exc = Null) =>
        /\ Cardinality(ImageBands) = Side
        /\ \A r \in ImageBands :
              /\ BlocksIn(r, "image") = Side
              /\ BlocksIn(r, "column_spacer") = Side - 1
              /\ mlayout[r][Len(mlayout[r])].kind = "image"
        /\ SumSeq([r \in DOMAIN mlayout |-> BlocksIn(r, "row_spacer")])
              = Side - 1
        /\ Len(mlayout) \in ImageBands

====
